---- MODULE Spec2Model ----
(***************************************************************************)
(* Model of chocolate/base.py: the Connection.results_as_dataframe         *)
(* projection and the SearchAlgorithm coordinator (__init__, update,       *)
(* next) run by several workers against one shared store.                  *)
(*                                                                         *)
(* Python values are encoded as follows.  None is "None" where a space is  *)
(* expected and PyNone (-1) where a token or a number is expected.  A      *)
(* record of the store is a function from field names (strings) to         *)
(* numbers, as the dictionaries of the code are.                           *)
(***************************************************************************)
EXTENDS Integers, Sequences, FiniteSets, TLC

NumWorkers == 2
MaxCalls == 2

Workers == 1..NumWorkers

PyNone == -1

SpaceIds == {"S1", "S2"}
ClearFlags == {"False", "True", "1"}
ParamVals == {1}

VARIABLES lock, dbSpace, results, compl, pc, alg, args, loc, res, issued,
          clears, calls, pre

vars == <<lock, dbSpace, results, compl, pc, alg, args, loc, res, issued,
          clears, calls, pre>>

store == <<dbSpace, results, compl>>

(***************************************************************************)
(* Space: the ordered parameter names of a space and the conversion of a   *)
(* positional value into the value of the named parameter.                 *)
(***************************************************************************)
names(s) == IF s = "S1" THEN <<"x">> ELSE <<"y">>

SpaceOffset(s) == IF s = "S1" THEN 10 ELSE 20

SpaceCall(s, vec) ==
    [n \in {names(s)[i] : i \in 1..Len(names(s))} |->
        SpaceOffset(s) + vec[CHOOSE i \in 1..Len(names(s)) : names(s)[i] = n]]

(***************************************************************************)
(* Loss payloads handed to update(): a Number, a Sequence, a Mapping (its  *)
(* items in iteration order, keys being strings or integers) or anything   *)
(* else.                                                                   *)
(***************************************************************************)
StrKey(s) == [t |-> "str", i |-> 0, s |-> s]
IntKey(i) == [t |-> "int", i |-> i, s |-> ""]

Payloads ==
    << [kind |-> "num",   num |-> 5, seq |-> <<>>,            items |-> <<>>],
       [kind |-> "seq",   num |-> 0, seq |-> <<2, 4>>,        items |-> <<>>],
       [kind |-> "seq",   num |-> 0, seq |-> <<3, PyNone>>,   items |-> <<>>],
       [kind |-> "map",   num |-> 0, seq |-> <<>>,
        items |-> << <<StrKey("x"), 7>> >>],
       [kind |-> "map",   num |-> 0, seq |-> <<>>,
        items |-> << <<IntKey(1), 8>>, <<StrKey("1"), 9>> >>],
       [kind |-> "other", num |-> 0, seq |-> <<>>,            items |-> <<>>],
       [kind |-> "map",   num |-> 0, seq |-> <<>>,
        items |-> << <<IntKey(0), 6>> >>] >>

EmptyDict == [f \in {} |-> 0]

\* "{}".format(k) for a mapping key
FormatKey(k) == IF k.t = "int" THEN ToString(k.i) ELSE k.s

\* SeqLossName counting from one
SeqLossNameFromOne(i) == "_loss_" \o ToString(i)

\* "_loss_{}".format(i) for i, v in enumerate(values)
SeqLossName(i) == "_loss_" \o ToString(i - 1)

SeqFields(seq) ==
    [f \in {SeqLossName(i) : i \in 1..Len(seq)} |->
        seq[CHOOSE i \in 1..Len(seq) : SeqLossName(i) = f]]

\* MapLossName without the prefix
MapLossNameBare(k) == FormatKey(k)

\* "_loss_{}".format(k) for k, v in values.items()
MapLossName(k) == "_loss_" \o FormatKey(k)

\* a dict comprehension keeps the last item written under a key
MapFields(items) ==
    [f \in {MapLossName(items[j][1]) : j \in 1..Len(items)} |->
        LET js == {j \in 1..Len(items) : MapLossName(items[j][1]) = f}
            last == CHOOSE j \in js : \A h \in js : h <= j
        IN  items[last][2]]

\* NumFields under the name of the first sequence element
NumFieldsIndexed(v) == "_loss_0" :> v

NumFields(v) == "_loss" :> v

\* the isinstance chain of update(): the result is the dictionary handed to
\* update_result, or the payload itself when no branch applies
Normalize(p) ==
    IF p.kind = "seq" THEN [dict |-> TRUE, fields |-> SeqFields(p.seq)]
    ELSE IF p.kind = "map" THEN [dict |-> TRUE, fields |-> MapFields(p.items)]
    ELSE IF p.kind = "num" THEN [dict |-> TRUE, fields |-> NumFields(p.num)]
    ELSE [dict |-> FALSE, fields |-> EmptyDict]

(***************************************************************************)
(* The store behind Connection.                                            *)
(***************************************************************************)
Matching(rs, token) == {i \in 1..Len(rs) : rs[i]["_chocolate_id"] = token}

update_result(rs, token, fields) ==
    IF Matching(rs, token) = {} THEN rs
    ELSE LET first == CHOOSE i \in Matching(rs, token) :
                          \A j \in Matching(rs, token) : i <= j
         IN  [rs EXCEPT ![first] = fields @@ @]

insert_result(rs, entry) == Append(rs, entry)

count_results(rs) == Len(rs)

\* a lock that is kept when the block is left
ReleaseNever(w) == lock

\* leaving a "with self.conn.lock()" block, normally or by an exception
Release(w) == IF lock = w THEN 0 ELSE lock

(***************************************************************************)
(* results_as_dataframe: rows built from the snapshot (s, results).        *)
(***************************************************************************)
StartsWith(f, p) == Len(f) >= Len(p) /\ SubSeq(f, 1, Len(p)) = p

Losses(r) == [k \in {f \in DOMAIN r : StartsWith(f, "_loss")} |-> r[k]]

\* Row that attaches the losses as soon as one of them is not None
RowAnyLoss(s, r) ==
    LET result == SpaceCall(s, [i \in 1..Len(names(s)) |-> r[names(s)[i]]])
        losses == Losses(r)
        withLoss == IF \E k \in DOMAIN losses : losses[k] # PyNone
                    THEN losses @@ result ELSE result
    IN  ("id" :> r["_chocolate_id"]) @@ withLoss

Row(s, r) ==
    LET result == SpaceCall(s, [i \in 1..Len(names(s)) |-> r[names(s)[i]]])
        losses == Losses(r)
        withLoss == IF \A k \in DOMAIN losses : losses[k] # PyNone
                    THEN losses @@ result ELSE result
    IN  ("id" :> r["_chocolate_id"]) @@ withLoss

Decodable(s, r) == \A i \in 1..Len(names(s)) : names(s)[i] \in DOMAIN r

\* the exception the transformation ends with, "" when it returns a table
TableExc(s, rs) ==
    IF rs = <<>> THEN "AttributeError"
    ELSE IF s = "None" THEN "AttributeError"
    ELSE IF \E i \in 1..Len(rs) : ~Decodable(s, rs[i]) THEN "KeyError"
    ELSE ""

Table(s, rs) ==
    IF TableExc(s, rs) # "" THEN <<>>
    ELSE [i \in 1..Len(rs) |-> Row(s, rs[i])]

(***************************************************************************)
(* Collaborators of the coordinator.                                       *)
(***************************************************************************)
MaxToken == 1

TokenIds == 0..MaxToken

ParamsOf(r) ==
    [k \in {f \in DOMAIN r : f # "_chocolate_id" /\ ~StartsWith(f, "_loss")}
        |-> r[k]]

\* what crossvalidation.next() can hand back: (reps_token, params), params
\* being None when hasParams is FALSE
CvReturns(rs) ==
    {[reps |-> PyNone, hasParams |-> FALSE, params |-> EmptyDict]}
    \cup {[reps |-> PyNone, hasParams |-> TRUE, params |-> ParamsOf(rs[i])] :
            i \in 1..Len(rs)}
    \cup {[reps |-> rs[i]["_chocolate_id"], hasParams |-> TRUE,
           params |-> ParamsOf(rs[i])] : i \in 1..Len(rs)}
    \cup {[reps |-> t, hasParams |-> FALSE, params |-> EmptyDict] :
            t \in TokenIds}

\* the token _next(token) returns after counting the stored results
HookTokens(ctx, count) == IF ctx = PyNone THEN {count} ELSE {ctx, count}

\* the parameter sets _next can sample under the bound space
HookParams(s) ==
    {[n \in {names(s)[i] : i \in 1..Len(names(s))} |-> v] : v \in ParamVals}

\* what _next hands back for the sampled point: the positional values
\* converted by the bound space into the values of the named parameters
HookReturn(s, params) ==
    SpaceCall(s, [i \in 1..Len(names(s)) |-> params[names(s)[i]]])

(***************************************************************************)
(* State of the workers.                                                   *)
(***************************************************************************)
NoAlg == [live |-> FALSE, space |-> "None", cv |-> FALSE, bound |-> FALSE]

NoArgs == [space |-> "None", cv |-> FALSE, clear |-> "False",
           token |-> PyNone, payload |-> 0]

NoLoc == [space |-> "None", reps |-> PyNone, hasParams |-> FALSE,
          params |-> EmptyDict, ctx |-> PyNone, count |-> 0,
          dict |-> FALSE, fields |-> EmptyDict, results |-> <<>>,
          start |-> 0, db_space |-> "None"]

NoRes == [op |-> "", exc |-> "", tok |-> PyNone, params |-> EmptyDict,
          table |-> <<>>]

NoPre == [space |-> "None", results |-> <<>>]

\* where a run starts: an empty store; or a store in which earlier sessions
\* left a space and the record of one sampled point, with no coordinator yet,
\* or with every worker holding a coordinator built on that store (without
\* or with a crossvalidation collaborator)
Rec0 == ("_chocolate_id" :> 0) @@ ("x" :> 1)

Built(cv) == [live |-> TRUE, space |-> "S1", cv |-> cv, bound |-> cv]

InitStates ==
    { [space |-> "None", results |-> <<>>,       alg |-> NoAlg],
      [space |-> "S1",   results |-> << Rec0 >>, alg |-> NoAlg],
      [space |-> "S1",   results |-> << Rec0 >>, alg |-> Built(FALSE)],
      [space |-> "S1",   results |-> << Rec0 >>, alg |-> Built(TRUE)] }

Init ==
    /\ lock = 0
    /\ \E st \in InitStates :
          /\ dbSpace = st.space
          /\ results = st.results
          /\ alg = [w \in Workers |-> st.alg]
    /\ compl = {}
    /\ pc = [w \in Workers |-> "idle"]
    /\ args = [w \in Workers |-> NoArgs]
    /\ loc = [w \in Workers |-> NoLoc]
    /\ res = [w \in Workers |-> NoRes]
    /\ issued = <<>>
    /\ clears = 0
    /\ calls = MaxCalls
    /\ pre = [w \in Workers |-> NoPre]

Return(w, r) ==
    /\ pc' = [pc EXCEPT ![w] = "idle"]
    /\ res' = [res EXCEPT ![w] = r]
    /\ args' = [args EXCEPT ![w] = NoArgs]
    /\ loc' = [loc EXCEPT ![w] = NoLoc]

(***************************************************************************)
(* SearchAlgorithm.__init__                                                *)
(***************************************************************************)
CtorCall(w, space, cv, clear_db) ==
    /\ pc[w] = "idle"
    /\ calls > 0
    /\ calls' = calls - 1
    /\ pc' = [pc EXCEPT ![w] = "ctor_wait"]
    /\ alg' = [alg EXCEPT ![w] = NoAlg]
    /\ args' = [args EXCEPT ![w] =
                   [NoArgs EXCEPT !.space = space, !.cv = cv,
                                  !.clear = clear_db]]
    /\ res' = [res EXCEPT ![w] = NoRes]
    /\ UNCHANGED <<lock, dbSpace, results, compl, loc, issued, clears, pre>>

\* CtorAcquire that does not wait for the lock to be free
CtorAcquireNoWait(w) ==
    /\ pc[w] = "ctor_wait"
    /\ lock' = w
    /\ pc' = [pc EXCEPT ![w] = "ctor_locked"]
    /\ loc' = [loc EXCEPT ![w].db_space = dbSpace]
    /\ UNCHANGED <<dbSpace, results, compl, alg, args, res, issued,
                   clears, calls, pre>>

\* with self.conn.lock(): db_space = self.conn.get_space()
CtorAcquire(w) ==
    /\ pc[w] = "ctor_wait"
    /\ lock = 0
    /\ lock' = w
    /\ pc' = [pc EXCEPT ![w] = "ctor_locked"]
    /\ loc' = [loc EXCEPT ![w].db_space = dbSpace]
    /\ UNCHANGED <<dbSpace, results, compl, alg, args, res, issued,
                   clears, calls, pre>>

\* Reconcile that clears for every clear_db that is not False
ReconcileTruthy(space, db_space, clear_db) ==
    IF space = "None" /\ db_space = "None" THEN "raise_none"
    ELSE IF space # "None" /\ db_space # "None"
         THEN IF space # db_space /\ clear_db = "False" THEN "raise_differ"
              ELSE IF space # db_space THEN "clear"
              ELSE "keep"
    ELSE IF space # "None" /\ db_space = "None" THEN "insert"
    ELSE "adopt"

\* Reconcile with the clear_db test of the mismatch lost
ReconcileIgnoresClearDb(space, db_space, clear_db) ==
    IF space = "None" /\ db_space = "None" THEN "raise_none"
    ELSE IF space # "None" /\ db_space # "None"
         THEN IF space # db_space THEN "clear" ELSE "keep"
    ELSE IF space # "None" /\ db_space = "None" THEN "insert"
    ELSE "adopt"

\* Reconcile without the test for a missing space
ReconcileNoSpaceCheck(space, db_space, clear_db) ==
    IF space # "None" /\ db_space # "None"
    THEN IF space # db_space /\ clear_db = "False" THEN "raise_differ"
         ELSE IF space # db_space /\ clear_db = "True" THEN "clear"
         ELSE "keep"
    ELSE IF space # "None" /\ db_space = "None" THEN "insert"
    ELSE "adopt"

\* the branch __init__ takes for (space, db_space, clear_db)
Reconcile(space, db_space, clear_db) ==
    IF space = "None" /\ db_space = "None" THEN "raise_none"
    ELSE IF space # "None" /\ db_space # "None"
         THEN IF space # db_space /\ clear_db = "False" THEN "raise_differ"
              ELSE IF space # db_space /\ clear_db = "True" THEN "clear"
              ELSE "keep"
    ELSE IF space # "None" /\ db_space = "None" THEN "insert"
    ELSE "adopt"

CtorReconcile(w) ==
    /\ pc[w] = "ctor_locked"
    /\ LET space == args[w].space
           db_space == loc[w].db_space
           branch == Reconcile(space, db_space, args[w].clear)
       IN  CASE branch \in {"raise_none", "raise_differ"} ->
                  /\ lock' = Release(w)
                  /\ Return(w, [NoRes EXCEPT !.op = "ctor",
                                             !.exc = "RuntimeError"])
                  /\ UNCHANGED <<dbSpace, results, compl, clears>>
             [] branch = "clear" ->
                  /\ dbSpace' = "None"
                  /\ results' = <<>>
                  /\ compl' = {}
                  /\ clears' = clears + 1
                  /\ pc' = [pc EXCEPT ![w] = "ctor_insert"]
                  /\ loc' = [loc EXCEPT ![w].space = space]
                  /\ UNCHANGED <<lock, args, res>>
             [] branch = "insert" ->
                  /\ dbSpace' = space
                  /\ pc' = [pc EXCEPT ![w] = "ctor_exit"]
                  /\ loc' = [loc EXCEPT ![w].space = space]
                  /\ UNCHANGED <<lock, results, compl, clears, args, res>>
             [] branch = "keep" ->
                  /\ pc' = [pc EXCEPT ![w] = "ctor_exit"]
                  /\ loc' = [loc EXCEPT ![w].space = space]
                  /\ UNCHANGED <<lock, dbSpace, results, compl, clears,
                                 args, res>>
             [] branch = "adopt" ->
                  /\ pc' = [pc EXCEPT ![w] = "ctor_exit"]
                  /\ loc' = [loc EXCEPT ![w].space = db_space]
                  /\ UNCHANGED <<lock, dbSpace, results, compl, clears,
                                 args, res>>
    /\ UNCHANGED <<alg, issued, calls, pre>>

CtorInsert(w) ==
    /\ pc[w] = "ctor_insert"
    /\ dbSpace' = loc[w].space
    /\ pc' = [pc EXCEPT ![w] = "ctor_exit"]
    /\ UNCHANGED <<lock, results, compl, alg, args, loc, res, issued,
                   clears, calls, pre>>

CtorExit(w) ==
    /\ pc[w] = "ctor_exit"
    /\ lock' = Release(w)
    /\ alg' = [alg EXCEPT ![w] = [live |-> TRUE, space |-> loc[w].space,
                                   cv |-> args[w].cv, bound |-> args[w].cv]]
    /\ Return(w, [NoRes EXCEPT !.op = "ctor"])
    /\ UNCHANGED <<dbSpace, results, compl, issued, clears, calls, pre>>

(***************************************************************************)
(* SearchAlgorithm.next                                                    *)
(***************************************************************************)
NextCall(w) ==
    /\ pc[w] = "idle"
    /\ alg[w].live
    /\ calls > 0
    /\ calls' = calls - 1
    /\ pc' = [pc EXCEPT ![w] = "next_wait"]
    /\ res' = [res EXCEPT ![w] = NoRes]
    /\ loc' = [loc EXCEPT ![w].start = Len(issued)]
    /\ UNCHANGED <<lock, dbSpace, results, compl, alg, args, issued, clears,
                   pre>>

\* NextAcquire that does not wait for the lock to be free
NextAcquireNoWait(w) ==
    /\ pc[w] = "next_wait"
    /\ lock' = w
    /\ pc' = [pc EXCEPT ![w] = "next_cv"]
    /\ UNCHANGED <<dbSpace, results, compl, alg, args, loc, res, issued,
                   clears, calls, pre>>

NextAcquire(w) ==
    /\ pc[w] = "next_wait"
    /\ lock = 0
    /\ lock' = w
    /\ pc' = [pc EXCEPT ![w] = "next_cv"]
    /\ UNCHANGED <<dbSpace, results, compl, alg, args, loc, res, issued,
                   clears, calls, pre>>

\* reps_token, params = self.crossvalidation.next()
NextCv(w) ==
    /\ pc[w] = "next_cv"
    /\ IF ~alg[w].cv
       THEN /\ pc' = [pc EXCEPT ![w] = "next_branch"]
            /\ UNCHANGED <<lock, compl, loc, res, args>>
       ELSE \/ \E r \in CvReturns(results) :
                  /\ loc' = [loc EXCEPT ![w].reps = r.reps,
                                        ![w].hasParams = r.hasParams,
                                        ![w].params = r.params]
                  /\ compl' = IF r.reps = PyNone THEN compl
                              ELSE compl \cup {r.reps}
                  /\ pc' = [pc EXCEPT ![w] = "next_branch"]
                  /\ UNCHANGED <<lock, res, args>>
            \/ /\ lock' = Release(w)
               /\ Return(w, [NoRes EXCEPT !.op = "next", !.exc = "CvError"])
               /\ UNCHANGED compl
    /\ UNCHANGED <<dbSpace, results, alg, issued, clears, calls, pre>>

\* HookCtx that drops the token of the collaborator
HookCtxDropped(cv, reps, hasParams) == PyNone

\* the token next() passes to _next: reps_token in the branch of
\* "reps_token is not None and params is None", nothing otherwise
HookCtx(cv, reps, hasParams) ==
    IF cv /\ reps # PyNone /\ ~hasParams THEN reps ELSE PyNone

\* NextResult that hands out the successor of the token of the hook
NextResultRenumbered(hookTok, ctx) == hookTok + 1

\* the token next() returns after _next(ctx) returned hookTok
NextResult(hookTok, ctx) == hookTok

\* NextBranch that starts the sampling hook whatever the collaborator
\* returned
NextBranchAlwaysHook(w) ==
    /\ pc[w] = "next_branch"
    /\ pc' = [pc EXCEPT ![w] = "next_hook"]
    /\ loc' = [loc EXCEPT
                 ![w].ctx = HookCtx(alg[w].cv, loc[w].reps,
                                    loc[w].hasParams),
                 ![w].count = count_results(results)]
    /\ UNCHANGED <<lock, issued, res, args>>
    /\ UNCHANGED <<dbSpace, results, compl, alg, clears, calls, pre>>

\* the tests on (reps_token, params) and the start of the sampling hook
NextBranch(w) ==
    /\ pc[w] = "next_branch"
    /\ IF alg[w].cv /\ loc[w].reps # PyNone /\ loc[w].hasParams
       THEN /\ lock' = Release(w)
            /\ issued' = Append(issued, [tok |-> loc[w].reps, via |-> "cv",
                                         ctx |-> PyNone, epoch |-> clears,
                                         w |-> w, start |-> loc[w].start,
                                         params |-> loc[w].params])
            /\ Return(w, [NoRes EXCEPT !.op = "next", !.tok = loc[w].reps,
                                       !.params = loc[w].params])
       ELSE /\ pc' = [pc EXCEPT ![w] = "next_hook"]
            /\ loc' = [loc EXCEPT
                         ![w].ctx = HookCtx(alg[w].cv, loc[w].reps,
                                            loc[w].hasParams),
                         ![w].count = count_results(results)]
            /\ UNCHANGED <<lock, issued, res, args>>
    /\ UNCHANGED <<dbSpace, results, compl, alg, clears, calls, pre>>

\* the sampling hook stores the sampled point; next() returns its result
NextHook(w) ==
    /\ pc[w] = "next_hook"
    /\ \/ \E tok \in HookTokens(loc[w].ctx, loc[w].count),
             params \in HookParams(alg[w].space) :
               /\ results' = insert_result(results,
                                 ("_chocolate_id" :> tok) @@ params)
               /\ issued' = Append(issued,
                               [tok |-> NextResult(tok, loc[w].ctx),
                                            via |-> "hook",
                                            ctx |-> loc[w].ctx,
                                            epoch |-> clears, w |-> w,
                                            start |-> loc[w].start,
                                            params |->
                                              HookReturn(alg[w].space,
                                                         params)])
               /\ Return(w, [NoRes EXCEPT
                                !.op = "next",
                                !.tok = NextResult(tok, loc[w].ctx),
                                !.params = HookReturn(alg[w].space,
                                                      params)])
       \/ /\ Return(w, [NoRes EXCEPT !.op = "next", !.exc = "HookError"])
          /\ UNCHANGED <<results, issued>>
    /\ lock' = Release(w)
    /\ UNCHANGED <<dbSpace, compl, alg, clears, calls, pre>>

(***************************************************************************)
(* SearchAlgorithm.update                                                  *)
(***************************************************************************)
UpdateCall(w, token, i) ==
    /\ pc[w] = "idle"
    /\ alg[w].live
    /\ calls > 0
    /\ calls' = calls - 1
    /\ pc' = [pc EXCEPT ![w] = "upd_wait"]
    /\ args' = [args EXCEPT ![w] = [NoArgs EXCEPT !.token = token,
                                                   !.payload = i]]
    /\ loc' = [loc EXCEPT ![w].dict = Normalize(Payloads[i]).dict,
                          ![w].fields = Normalize(Payloads[i]).fields]
    /\ res' = [res EXCEPT ![w] = NoRes]
    /\ UNCHANGED <<lock, dbSpace, results, compl, alg, issued, clears, pre>>

UpdateAcquire(w) ==
    /\ pc[w] = "upd_wait"
    /\ lock = 0
    /\ lock' = w
    /\ pc' = [pc EXCEPT ![w] = "upd_locked"]
    /\ UNCHANGED <<dbSpace, results, compl, alg, args, loc, res, issued,
                   clears, calls, pre>>

\* what the store answers when update_result is handed something that is
\* not a dictionary of fields: an error of its own, or nothing
RawWriteOutcomes == {"StoreError", "TypeError", ""}

UpdateWrite(w) ==
    /\ pc[w] = "upd_locked"
    /\ IF loc[w].dict
       THEN /\ results' = update_result(results, args[w].token, loc[w].fields)
            /\ Return(w, [NoRes EXCEPT !.op = "update"])
       ELSE /\ results' = results
            /\ \E e \in RawWriteOutcomes :
                  Return(w, [NoRes EXCEPT !.op = "update", !.exc = e])
    /\ lock' = Release(w)
    /\ UNCHANGED <<dbSpace, compl, alg, issued, clears, calls, pre>>

(***************************************************************************)
(* Connection.results_as_dataframe                                         *)
(***************************************************************************)
DfCall(w) ==
    /\ pc[w] = "idle"
    /\ calls > 0
    /\ calls' = calls - 1
    /\ pc' = [pc EXCEPT ![w] = "df_wait"]
    /\ res' = [res EXCEPT ![w] = NoRes]
    /\ pre' = [pre EXCEPT ![w] = NoPre]
    /\ UNCHANGED <<lock, dbSpace, results, compl, alg, args, loc, issued,
                   clears>>

\* DfAcquire that does not wait for the lock to be free
DfAcquireNoWait(w) ==
    /\ pc[w] = "df_wait"
    /\ lock' = w
    /\ pc' = [pc EXCEPT ![w] = "df_space"]
    /\ pre' = [pre EXCEPT ![w] = [space |-> dbSpace, results |-> results]]
    /\ UNCHANGED <<dbSpace, results, compl, alg, args, loc, res, issued,
                   clears, calls>>

DfAcquire(w) ==
    /\ pc[w] = "df_wait"
    /\ lock = 0
    /\ lock' = w
    /\ pc' = [pc EXCEPT ![w] = "df_space"]
    /\ pre' = [pre EXCEPT ![w] = [space |-> dbSpace, results |-> results]]
    /\ UNCHANGED <<dbSpace, results, compl, alg, args, loc, res, issued,
                   clears, calls>>

\* DfGetSpace that gives the lock back before the results are read
DfGetSpaceUnlock(w) ==
    /\ pc[w] = "df_space"
    /\ loc' = [loc EXCEPT ![w].space = dbSpace]
    /\ pc' = [pc EXCEPT ![w] = "df_results"]
    /\ lock' = Release(w)
    /\ UNCHANGED <<dbSpace, results, compl, alg, args, res, issued, clears,
                   calls, pre>>

DfGetSpace(w) ==
    /\ pc[w] = "df_space"
    /\ loc' = [loc EXCEPT ![w].space = dbSpace]
    /\ pc' = [pc EXCEPT ![w] = "df_results"]
    /\ UNCHANGED <<lock, dbSpace, results, compl, alg, args, res, issued,
                   clears, calls, pre>>

DfAllResults(w) ==
    /\ pc[w] = "df_results"
    /\ loc' = [loc EXCEPT ![w].results = results]
    /\ lock' = Release(w)
    /\ pc' = [pc EXCEPT ![w] = "df_transform"]
    /\ UNCHANGED <<dbSpace, results, compl, alg, args, res, issued, clears,
                   calls, pre>>

DfTransform(w) ==
    /\ pc[w] = "df_transform"
    /\ Return(w, [NoRes EXCEPT !.op = "df",
                               !.exc = TableExc(loc[w].space, loc[w].results),
                               !.table = Table(loc[w].space, loc[w].results)])
    /\ UNCHANGED <<lock, dbSpace, results, compl, alg, issued, clears, calls,
                   pre>>

(***************************************************************************)
(* The workers run the operations in any order and interleaving.           *)
(***************************************************************************)
Next ==
    \/ \E w \in Workers, space \in SpaceIds \cup {"None"}, cv \in BOOLEAN,
          clear_db \in ClearFlags : CtorCall(w, space, cv, clear_db)
    \/ \E w \in Workers : CtorAcquire(w)
    \/ \E w \in Workers : CtorReconcile(w)
    \/ \E w \in Workers : CtorInsert(w)
    \/ \E w \in Workers : CtorExit(w)
    \/ \E w \in Workers : NextCall(w)
    \/ \E w \in Workers : NextAcquire(w)
    \/ \E w \in Workers : NextCv(w)
    \/ \E w \in Workers : NextBranch(w)
    \/ \E w \in Workers : NextHook(w)
    \/ \E w \in Workers, token \in TokenIds, i \in 1..Len(Payloads) :
          UpdateCall(w, token, i)
    \/ \E w \in Workers : UpdateAcquire(w)
    \/ \E w \in Workers : UpdateWrite(w)
    \/ \E w \in Workers : DfCall(w)
    \/ \E w \in Workers : DfAcquire(w)
    \/ \E w \in Workers : DfGetSpace(w)
    \/ \E w \in Workers : DfAllResults(w)
    \/ \E w \in Workers : DfTransform(w)

Spec == Init /\ [][Next]_vars

TypeOK ==
    /\ lock \in 0..NumWorkers
    /\ dbSpace \in SpaceIds \cup {"None"}
    /\ Len(results) <= Len(issued) + 1
    /\ calls \in Nat

(***************************************************************************)
(* Properties.                                                             *)
(***************************************************************************)
(***************************************************************************)
(* One session from an empty store: the workers build coordinators of the  *)
(* space S1 without a crossvalidation collaborator and call next, update   *)
(* and results_as_dataframe in any order and interleaving.                 *)
(***************************************************************************)
E2ECalls == 4

InitE2E ==
    /\ lock = 0
    /\ dbSpace = "None"
    /\ results = <<>>
    /\ compl = {}
    /\ pc = [w \in Workers |-> "idle"]
    /\ alg = [w \in Workers |-> NoAlg]
    /\ args = [w \in Workers |-> NoArgs]
    /\ loc = [w \in Workers |-> NoLoc]
    /\ res = [w \in Workers |-> NoRes]
    /\ issued = <<>>
    /\ clears = 0
    /\ calls = E2ECalls
    /\ pre = [w \in Workers |-> NoPre]

NextE2E ==
    \/ \E w \in Workers, space \in {"S1", "None"}, clear_db \in ClearFlags :
          CtorCall(w, space, FALSE, clear_db)
    \/ \E w \in Workers : CtorAcquire(w)
    \/ \E w \in Workers : CtorReconcile(w)
    \/ \E w \in Workers : CtorExit(w)
    \/ \E w \in Workers : NextCall(w)
    \/ \E w \in Workers : NextAcquire(w)
    \/ \E w \in Workers : NextCv(w)
    \/ \E w \in Workers : NextBranch(w)
    \/ \E w \in Workers : NextHook(w)
    \/ \E w \in Workers, token \in TokenIds, i \in 1..Len(Payloads) :
          UpdateCall(w, token, i)
    \/ \E w \in Workers : UpdateAcquire(w)
    \/ \E w \in Workers : UpdateWrite(w)
    \/ \E w \in Workers : DfCall(w)
    \/ \E w \in Workers : DfAcquire(w)
    \/ \E w \in Workers : DfGetSpace(w)
    \/ \E w \in Workers : DfAllResults(w)
    \/ \E w \in Workers : DfTransform(w)

SpecE2E == InitE2E /\ [][NextE2E]_vars

(***************************************************************************)
(* Fair scheduling: a worker that is inside a critical section or builds   *)
(* its table goes on (the store calls, the sampling hook and the           *)
(* collaborator come back), and a worker that waits for the lock gets it   *)
(* if the lock is free again and again.  Nobody is obliged to start a call.*)
(***************************************************************************)
Acquire(w) ==
    \/ CtorAcquire(w)
    \/ NextAcquire(w)
    \/ UpdateAcquire(w)
    \/ DfAcquire(w)

Proceed(w) ==
    \/ CtorReconcile(w)
    \/ CtorInsert(w)
    \/ CtorExit(w)
    \/ NextCv(w)
    \/ NextBranch(w)
    \/ NextHook(w)
    \/ UpdateWrite(w)
    \/ DfGetSpace(w)
    \/ DfAllResults(w)
    \/ DfTransform(w)

Fairness ==
    \A w \in Workers : SF_vars(Acquire(w)) /\ WF_vars(Proceed(w))

FairCalls == 2

FairPayloads == {1, 6}

InitFair ==
    /\ lock = 0
    /\ \E st \in InitStates :
          /\ dbSpace = st.space
          /\ results = st.results
          /\ alg = [w \in Workers |-> st.alg]
    /\ compl = {}
    /\ pc = [w \in Workers |-> "idle"]
    /\ args = [w \in Workers |-> NoArgs]
    /\ loc = [w \in Workers |-> NoLoc]
    /\ res = [w \in Workers |-> NoRes]
    /\ issued = <<>>
    /\ clears = 0
    /\ calls = FairCalls
    /\ pre = [w \in Workers |-> NoPre]

\* the calls of Next with the arguments that matter for the lock: every
\* outcome of a construction, a payload that is normalized and one that is
\* not
NextFair ==
    \/ \E w \in Workers, space \in SpaceIds \cup {"None"},
          clear_db \in ClearFlags : CtorCall(w, space, FALSE, clear_db)
    \/ \E w \in Workers : NextCall(w)
    \/ \E w \in Workers, i \in FairPayloads : UpdateCall(w, 0, i)
    \/ \E w \in Workers : DfCall(w)
    \/ \E w \in Workers : Acquire(w)
    \/ \E w \in Workers : Proceed(w)

SpecFair == InitFair /\ [][NextFair]_vars /\ Fairness

Waiting == {"ctor_wait", "next_wait", "upd_wait", "df_wait"}

Inside == {"ctor_locked", "ctor_insert", "ctor_exit", "next_cv",
           "next_branch", "next_hook", "upd_locked", "df_space",
           "df_results"}

\* the step in which worker w leaves position p
Leaves(w, p) == pc[w] = p /\ pc'[w] # p

Fatal(w) ==
    \/ args[w].space = "None" /\ dbSpace = "None"
    \/ /\ args[w].space # "None" /\ dbSpace # "None"
       /\ args[w].space # dbSpace /\ args[w].clear = "False"

\* C1: the reconciliation step of a construction does what the table says
\* for (local space, stored space, clear_db): nothing anywhere is fatal; a
\* local space and an empty store insert the local space; no local space
\* adopts the stored one and leaves the store alone; equal spaces leave the
\* store alone; different spaces are fatal with clear_db False and, with
\* clear_db True, empty the store of every record and document and then
\* store the local space.
C1_ReconciliationTable ==
    [][\A w \in Workers :
        /\ Leaves(w, "ctor_locked") =>
            LET local == args[w].space
                stored == dbSpace
                raised == pc'[w] = "idle" /\ res'[w].exc = "RuntimeError"
                goesOn == pc'[w] = "ctor_exit"
            IN  /\ (local = "None" /\ stored = "None") => raised
                /\ (local # "None" /\ stored = "None") =>
                      /\ goesOn /\ dbSpace' = local /\ loc'[w].space = local
                      /\ results' = results /\ compl' = compl
                /\ (local = "None" /\ stored # "None") =>
                      goesOn /\ store' = store /\ loc'[w].space = stored
                /\ (local # "None" /\ local = stored) =>
                      goesOn /\ store' = store /\ loc'[w].space = stored
                /\ (local # "None" /\ stored # "None" /\ local # stored
                      /\ args[w].clear = "False") => raised
                /\ (local # "None" /\ stored # "None" /\ local # stored
                      /\ args[w].clear = "True") =>
                      /\ pc'[w] = "ctor_insert"
                      /\ results' = <<>> /\ compl' = {}
        /\ Leaves(w, "ctor_insert") =>
              /\ pc'[w] = "ctor_exit"
              /\ dbSpace' = args[w].space /\ loc'[w].space = args[w].space
              /\ results' = <<>> /\ compl' = {}
        /\ Leaves(w, "ctor_exit") =>
              alg'[w].live /\ alg'[w].space = loc[w].space
      ]_vars

\* a destructive construction has emptied a store that held a record and
\* stored its own space
C1_Witness ==
    \E w \in Workers :
        /\ pc[w] = "ctor_exit" /\ args[w].clear = "True"
        /\ clears > 0 /\ results = <<>> /\ dbSpace = args[w].space
        /\ dbSpace = "S2"

\* C2: a construction that fails fatally leaves the stored space, the
\* records and the complementary documents as they were, frees the lock,
\* builds no coordinator and binds no crossvalidation collaborator.
C2_FatalLeavesStore ==
    [][\A w \in Workers :
        (Leaves(w, "ctor_locked") /\ Fatal(w)) =>
            /\ store' = store
            /\ lock' = 0
            /\ pc'[w] = "idle" /\ res'[w].exc = "RuntimeError"
            /\ ~alg'[w].live /\ ~alg'[w].bound
      ]_vars

\* a construction failed on a mismatch against a store that holds a space
\* and a record, and left both in place
C2_Witness ==
    \E w \in Workers :
        /\ pc[w] = "idle" /\ res[w].op = "ctor"
        /\ res[w].exc = "RuntimeError"
        /\ dbSpace = "S1" /\ results # <<>> /\ lock = 0 /\ ~alg[w].live

Concurrent(i, j) == i < j /\ issued[j].w # issued[i].w /\ issued[j].start < i

FreshMint(e) == e.via = "hook" /\ e.ctx = PyNone

C4_LockExclusiveAndReleased ==
    /\ Cardinality({w \in Workers : pc[w] \in Inside}) <= 1
    /\ \A w \in Workers : (pc[w] \in Inside) <=> (lock = w)

\* a worker left next() by an exception of the sampling hook or of the
\* collaborator while another worker is inside a critical section
C4_Witness ==
    \E w, v \in Workers :
        /\ w # v /\ pc[w] = "idle"
        /\ res[w].exc \in {"HookError", "CvError"}
        /\ pc[v] \in Inside /\ lock = v

InUpdate(w) == pc[w] \in {"upd_wait", "upd_locked"}

Payload(w) == Payloads[args[w].payload]

\* C6 as stated: update() with a payload that is neither a number, a
\* sequence nor a mapping ends with a type error and writes nothing.
C6_Claimed ==
    [][\A w \in Workers :
        (Leaves(w, "upd_locked") /\ Payload(w).kind = "other") =>
            res'[w].exc = "TypeError" /\ results' = results
      ]_vars

\* the text of a mapping key inside a field name
KeyText(k) == IF k.t = "int" THEN ToString(k.i) ELSE k.s

ScalarAsClaimed(p, fields) ==
    DOMAIN fields = {"_loss"} /\ fields["_loss"] = p.num

SequenceAsClaimed(p, fields) ==
    /\ DOMAIN fields = {"_loss_" \o ToString(i) : i \in 0..(Len(p.seq) - 1)}
    /\ Cardinality(DOMAIN fields) = Len(p.seq)
    /\ \A i \in 0..(Len(p.seq) - 1) :
          fields["_loss_" \o ToString(i)] = p.seq[i + 1]

MappingAsClaimed(p, fields) ==
    /\ DOMAIN fields =
          {"_loss_" \o KeyText(p.items[j][1]) : j \in 1..Len(p.items)}
    /\ Cardinality(DOMAIN fields) = Len(p.items)
    /\ \A j \in 1..Len(p.items) :
          fields["_loss_" \o KeyText(p.items[j][1])] = p.items[j][2]

DistinctTexts(p) ==
    \A j, h \in 1..Len(p.items) :
        j # h => KeyText(p.items[j][1]) # KeyText(p.items[h][1])

\* every field is the field of a key, with the value of the last key of
\* that text
MappingLastWins(p, fields) ==
    /\ DOMAIN fields =
          {"_loss_" \o KeyText(p.items[j][1]) : j \in 1..Len(p.items)}
    /\ \A j \in 1..Len(p.items) :
          (\A h \in (j + 1)..Len(p.items) :
              KeyText(p.items[h][1]) # KeyText(p.items[j][1]))
            => fields["_loss_" \o KeyText(p.items[j][1])] = p.items[j][2]

\* C7 as stated: the normalized dictionary of a mapping with k keys has
\* exactly the k fields _loss_<key>, each with the value of its key (and a
\* scalar and a sequence are normalized as claimed).
C7_Claimed ==
    \A w \in Workers :
        InUpdate(w) =>
            /\ Payload(w).kind = "num" => ScalarAsClaimed(Payload(w), loc[w].fields)
            /\ Payload(w).kind = "seq" => SequenceAsClaimed(Payload(w), loc[w].fields)
            /\ Payload(w).kind = "map" => MappingAsClaimed(Payload(w), loc[w].fields)

\* C7 amended: a scalar v becomes exactly {"_loss": v}; a sequence of length
\* k exactly the k fields _loss_0 .. _loss_{k-1} in order; a mapping whose
\* keys have pairwise different texts exactly one field _loss_<key> per key,
\* values unchanged, and keys of the same text (1 and "1") share one field
\* that holds the value of the later key; update_result writes exactly
\* these fields on the record of the token; equal payloads give equal
\* dictionaries.
C7_Normalization ==
    [][\A w \in Workers :
        /\ InUpdate(w) =>
            /\ Payload(w).kind = "num" =>
                  ScalarAsClaimed(Payload(w), loc[w].fields)
            /\ Payload(w).kind = "seq" =>
                  SequenceAsClaimed(Payload(w), loc[w].fields)
            /\ (Payload(w).kind = "map" /\ DistinctTexts(Payload(w))) =>
                  MappingAsClaimed(Payload(w), loc[w].fields)
            /\ Payload(w).kind = "map" =>
                  MappingLastWins(Payload(w), loc[w].fields)
            /\ \A v \in Workers :
                  (InUpdate(v) /\ args[v].payload = args[w].payload) =>
                      loc[v].fields = loc[w].fields
        /\ (Leaves(w, "upd_locked") /\ Payload(w).kind # "other") =>
              \A i \in 1..Len(results) :
                  IF i \in Matching(results, args[w].token)
                     /\ \A j \in Matching(results, args[w].token) : i <= j
                  THEN /\ DOMAIN results'[i] =
                              DOMAIN results[i] \cup DOMAIN loc[w].fields
                       /\ \A f \in DOMAIN loc[w].fields :
                              results'[i][f] = loc[w].fields[f]
                       /\ \A f \in DOMAIN results[i] \ DOMAIN loc[w].fields :
                              results'[i][f] = results[i][f]
                  ELSE results'[i] = results[i]
      ]_vars

\* the mapping {1: 8, "1": 9} has been written as the single field _loss_1
C7_Witness ==
    \E i \in 1..Len(results), w \in Workers :
        /\ res[w].op = "update" /\ res[w].exc = ""
        /\ "_loss_1" \in DOMAIN results[i] /\ results[i]["_loss_1"] = 9
        /\ "_loss_0" \notin DOMAIN results[i]

UpdateStep(w) ==
    \/ pc[w] = "idle" /\ pc'[w] = "upd_wait"
    \/ Leaves(w, "upd_wait")
    \/ Leaves(w, "upd_locked")

NotLoss(r) == {f \in DOMAIN r : ~StartsWith(f, "_loss")}

\* C8: a step of update(token, values) changes at most the record of the
\* token, and of that record only fields with the loss prefix: the number
\* of records, every other record, the id and parameter fields of every
\* record, the stored space and the complementary documents stay as they
\* were.
C8_UpdateFrame ==
    [][(\E w \in Workers : UpdateStep(w)) =>
        /\ dbSpace' = dbSpace /\ compl' = compl
        /\ Len(results') = Len(results)
        /\ \A i \in 1..Len(results) :
              /\ NotLoss(results'[i]) = NotLoss(results[i])
              /\ \A f \in NotLoss(results[i]) : results'[i][f] = results[i][f]
        /\ Cardinality({i \in 1..Len(results) : results'[i] # results[i]}) <= 1
        /\ \A w \in Workers, i \in 1..Len(results) :
              (UpdateStep(w) /\ results'[i] # results[i]) =>
                  results[i]["_chocolate_id"] = args[w].token
      ]_vars

\* update() wrote the loss of the mapping {"x": 7} next to the parameter x
C8_Witness ==
    \E i \in 1..Len(results), w \in Workers :
        /\ res[w].op = "update" /\ res[w].exc = ""
        /\ "x" \in DOMAIN results[i] /\ results[i]["x"] = 1
        /\ "_loss_x" \in DOMAIN results[i] /\ results[i]["_loss_x"] = 7

\* C9: results_as_dataframe reads the space and the records in one lock
\* hold, so both are those of the store state at the acquisition; the lock
\* is free again before the rows are built; the table (or the exception) is
\* the one of that snapshot whatever is written to the store afterwards.
C9_SnapshotIsAtomic ==
    \A w \in Workers :
        /\ pc[w] \in {"df_space", "df_results"} =>
              lock = w /\ pre[w].space = dbSpace /\ pre[w].results = results
        /\ pc[w] = "df_results" => loc[w].space = pre[w].space
        /\ pc[w] = "df_transform" =>
              /\ lock # w
              /\ loc[w].space = pre[w].space
              /\ loc[w].results = pre[w].results
        /\ (pc[w] = "idle" /\ res[w].op = "df") =>
              /\ res[w].table = Table(pre[w].space, pre[w].results)
              /\ res[w].exc = TableExc(pre[w].space, pre[w].results)

\* a table of one row was returned although the store was written after
\* the snapshot
C9_Witness ==
    \E w \in Workers :
        /\ pc[w] = "idle" /\ res[w].op = "df" /\ res[w].exc = ""
        /\ Len(res[w].table) = 1
        /\ (results # pre[w].results \/ dbSpace # pre[w].space)

ParamNames(r) == {f \in NotLoss(r) : f # "_chocolate_id"}

\* C10 as stated: in every store state every record carries exactly the
\* parameters of the stored space.
C10_Claimed ==
    \A i \in 1..Len(results) :
        /\ dbSpace # "None"
        /\ ParamNames(results[i]) =
              {names(dbSpace)[k] : k \in 1..Len(names(dbSpace))}

LossFields(r) == {f \in DOMAIN r : StartsWith(f, "_loss")}

\* worker w holds the table results_as_dataframe() returned
DfReturned(w) == pc[w] = "idle" /\ res[w].op = "df" /\ res[w].exc = ""

\* C11: every row of a returned table carries the losses of its record all
\* or nothing: no loss field at all when one loss-prefixed field of the
\* record is null, every loss-prefixed field with its stored value when all
\* of them are non-null; the id and the decoded parameter columns are
\* present in both cases.
C11_LossAllOrNothing ==
    \A w \in Workers :
        DfReturned(w) =>
            /\ Len(res[w].table) = Len(pre[w].results)
            /\ \A i \in 1..Len(pre[w].results) :
                  LET r == pre[w].results[i]
                      row == res[w].table[i]
                      ns == names(pre[w].space)
                  IN  /\ "id" \in DOMAIN row
                      /\ row["id"] = r["_chocolate_id"]
                      /\ \A k \in 1..Len(ns) :
                            /\ ns[k] \in DOMAIN row
                            /\ row[ns[k]] =
                                  SpaceOffset(pre[w].space) + r[ns[k]]
                      /\ IF \E f \in LossFields(r) : r[f] = PyNone
                         THEN LossFields(row) = {}
                         ELSE /\ LossFields(row) = LossFields(r)
                              /\ \A f \in LossFields(r) : row[f] = r[f]

\* a returned row carries no loss although its record holds _loss_0 = 3,
\* because _loss_1 is null
C11_Witness ==
    \E w \in Workers :
        /\ DfReturned(w)
        /\ \E i \in 1..Len(pre[w].results) :
              /\ "_loss_0" \in DOMAIN pre[w].results[i]
              /\ pre[w].results[i]["_loss_0"] = 3
              /\ pre[w].results[i]["_loss_1"] = PyNone
              /\ LossFields(res[w].table[i]) = {}

\* C12 as stated: a record that has _loss_0 set while _loss_1 is absent or
\* null gets a row without any loss value.
C12_Claimed ==
    \A w \in Workers :
        DfReturned(w) =>
            \A i \in 1..Len(pre[w].results) :
                LET r == pre[w].results[i]
                IN  (/\ "_loss_0" \in DOMAIN r /\ r["_loss_0"] # PyNone
                     /\ ("_loss_1" \notin DOMAIN r \/ r["_loss_1"] = PyNone))
                        => LossFields(res[w].table[i]) = {}

\* the table returned to w, taken from a store of one record, is the row of
\* the first token handed out: same id, the parameters next() returned, no
\* loss while the record has none and _loss once the record holds it
E2ETable(w) ==
    (pc[w] = "idle" /\ res[w].op = "df" /\ Len(pre[w].results) = 1) =>
        LET r == pre[w].results[1]
            e == issued[1]
            row == res[w].table[1]
        IN  /\ res[w].exc = "" /\ Len(res[w].table) = 1
            /\ e.via = "hook" /\ e.ctx = PyNone
            /\ r["_chocolate_id"] = e.tok /\ row["id"] = e.tok
            /\ DOMAIN e.params = {"x"}
            /\ \A n \in DOMAIN e.params : row[n] = e.params[n]
            /\ DOMAIN row \ LossFields(row) = {"id", "x"}
            /\ LossFields(r) = {} => LossFields(row) = {}
            /\ (LossFields(r) = {"_loss"} /\ r["_loss"] # PyNone) =>
                  LossFields(row) = {"_loss"} /\ row["_loss"] = r["_loss"]

\* C13: in a session started on an empty store, next() without
\* crossvalidation stores one pending record and returns its token and
\* parameters; update(t, v) with a scalar v leaves _loss = v on the record
\* of t; results_as_dataframe() on the store of that one record returns
\* exactly one row, keyed by the id of the record, with the parameters
\* next() returned and with _loss = v, and before the update the same row
\* without a loss.
C13_EndToEnd ==
    [][\A w \in Workers :
        /\ (Leaves(w, "next_hook") /\ res'[w].exc = "") =>
              /\ Len(results') = Len(results) + 1
              /\ LET r == results'[Len(results')]
                 IN  /\ r["_chocolate_id"] = res'[w].tok
                     /\ LossFields(r) = {}
                     /\ Row(dbSpace, r) =
                            ("id" :> res'[w].tok) @@ res'[w].params
        /\ (Leaves(w, "upd_locked") /\ Payload(w).kind = "num"
                /\ Matching(results, args[w].token) # {}) =>
              /\ res'[w].exc = ""
              /\ \E i \in Matching(results, args[w].token) :
                    /\ "_loss" \in DOMAIN results'[i]
                    /\ results'[i]["_loss"] = Payload(w).num
        /\ E2ETable(w)'
      ]_vars

\* the session ran to its end: the one row returned holds the parameters
\* of the first next() and the loss 5 of update(t, 5)
C13_Witness ==
    \E w \in Workers :
        /\ DfReturned(w) /\ Len(res[w].table) = 1 /\ Len(issued) = 1
        /\ res[w].table[1]["id"] = issued[1].tok
        /\ res[w].table[1]["x"] = issued[1].params["x"]
        /\ LossFields(res[w].table[1]) = {"_loss"}
        /\ res[w].table[1]["_loss"] = 5
        /\ dbSpace = "S1" /\ calls = 0

\* a step that executes insert_space
InsertsSpace == dbSpace' # "None" /\ dbSpace' # dbSpace

\* C14: insert_space is executed only by a construction inside its
\* critical section and only while the store holds no space, so the store
\* never holds a second space next to an existing one: a stored space is
\* never replaced by another one in one step.
C14_InsertOnlyIntoEmpty ==
    [][InsertsSpace =>
        /\ dbSpace = "None"
        /\ \E w \in Workers :
              /\ lock = w /\ pc[w] \in {"ctor_locked", "ctor_insert"}
              /\ dbSpace' = args[w].space
      ]_vars

\* two workers built coordinators with a local space on a store that was
\* empty: the space of the first is stored, the second did not insert its
\* own
C14_Witness ==
    \E w, v \in Workers :
        /\ w # v /\ clears = 0 /\ results = <<>>
        /\ alg[w].live /\ alg[w].space = dbSpace
        /\ pc[v] = "ctor_exit" /\ args[v].space # "None"
        /\ args[v].space # dbSpace /\ dbSpace # "None"

\* worker w is in the destructive reset: a construction with a local space
\* that differs from the one it found stored, and clear_db = True
Resetting(w) ==
    /\ lock = w /\ pc[w] \in {"ctor_locked", "ctor_insert"}
    /\ args[w].space # "None" /\ args[w].clear = "True"
    /\ loc[w].db_space # "None" /\ args[w].space # loc[w].db_space

\* C15: a stored space changes only in the destructive reset of a
\* construction with a differing local space and clear_db = True, which
\* removes it and then stores the local space; the steps of next(),
\* update(), results_as_dataframe() and of every other construction leave
\* a stored space as it is.
C15_SpaceChangesOnlyByReset ==
    [][/\ (dbSpace # "None" /\ dbSpace' # dbSpace) =>
            \E w \in Workers :
                /\ Resetting(w) /\ pc[w] = "ctor_locked"
                /\ loc[w].db_space = dbSpace /\ dbSpace' = "None"
       /\ \A w \in Workers :
            (Resetting(w) /\ Leaves(w, "ctor_insert")) =>
                dbSpace = "None" /\ dbSpace' = args[w].space
       /\ \A w \in Workers :
            (pc[w] # pc'[w] /\ ~Resetting(w)) =>
                (dbSpace # "None" => dbSpace' = dbSpace)
      ]_vars

\* a destructive reset replaced the stored space S1 by S2 and the
\* coordinator built by it is in use
C15_Witness ==
    \E w \in Workers :
        /\ pc[w] = "idle" /\ res[w].op = "ctor" /\ res[w].exc = ""
        /\ alg[w].live /\ alg[w].space = "S2"
        /\ clears = 1 /\ dbSpace = "S2" /\ lock = 0

\* the collaborator of w returned a token together with parameters
CvBoth(w) == alg[w].cv /\ loc[w].reps # PyNone /\ loc[w].hasParams

\* C16: when the crossvalidation collaborator returned both a token and
\* parameters, next() returns exactly that pair, frees the lock and never
\* starts the sampling hook: no record is added to the store.
C16_BothPresentReturned ==
    [][\A w \in Workers :
        (Leaves(w, "next_branch") /\ CvBoth(w)) =>
            /\ pc'[w] = "idle" /\ res'[w].op = "next" /\ res'[w].exc = ""
            /\ res'[w].tok = loc[w].reps
            /\ res'[w].params = loc[w].params
            /\ results' = results /\ dbSpace' = dbSpace
            /\ lock' = 0
      ]_vars

\* next() returned the token and the parameters of the stored record the
\* collaborator replays, and the store still holds that record only
C16_Witness ==
    \E w \in Workers :
        /\ pc[w] = "idle" /\ res[w].op = "next" /\ res[w].exc = ""
        /\ Len(issued) > 0 /\ issued[Len(issued)].via = "cv"
        /\ issued[Len(issued)].w = w
        /\ Len(results) = 1
        /\ res[w].tok = results[1]["_chocolate_id"]
        /\ res[w].params = ParamsOf(results[1])

\* the collaborator of w, if there is one, returned no token
CvNoToken(w) == ~alg[w].cv \/ loc[w].reps = PyNone

\* C17: without a crossvalidation collaborator, or when the collaborator
\* returned no token (with or without parameters), next() starts the
\* sampling hook without a token, once, and returns the token and the
\* parameters of the hook unchanged: those of the one record the hook
\* stored, not the parameters of the collaborator.
C17_NoTokenDelegates ==
    [][\A w \in Workers :
        /\ (Leaves(w, "next_branch") /\ CvNoToken(w)) =>
              /\ pc'[w] = "next_hook" /\ loc'[w].ctx = PyNone
              /\ results' = results /\ lock' = lock
        /\ (Leaves(w, "next_hook") /\ loc[w].ctx = PyNone) =>
              /\ pc'[w] = "idle" /\ res'[w].op = "next" /\ lock' = 0
              /\ res'[w].exc = "" =>
                    /\ Len(results') = Len(results) + 1
                    /\ SubSeq(results', 1, Len(results)) = results
                    /\ LET r == results'[Len(results')]
                       IN  /\ res'[w].tok = r["_chocolate_id"]
                           /\ res'[w].tok = count_results(results)
                           /\ res'[w].params =
                                 HookReturn(alg[w].space, ParamsOf(r))
              /\ res'[w].exc # "" => results' = results
      ]_vars

\* the collaborator returned parameters without a token, and next() is in
\* the sampling hook without a token
C17_Witness ==
    \E w \in Workers :
        /\ pc[w] = "next_hook" /\ alg[w].cv
        /\ loc[w].reps = PyNone /\ loc[w].hasParams
        /\ loc[w].params # EmptyDict /\ loc[w].ctx = PyNone

\* C18 as stated: a construction that succeeds binds the coordinator to
\* the space the store holds when the lock of the construction is freed,
\* for every clear_db.
C18_Claimed ==
    [][\A w \in Workers :
        Leaves(w, "ctor_exit") =>
            /\ alg'[w].live /\ res'[w].exc = ""
            /\ alg'[w].space = dbSpace
      ]_vars

\* the store never held a space
NeverStored == dbSpace = "None" /\ clears = 0

\* C19: clear() and insert_space() of a destructive construction run in
\* one lock hold: between them the constructing worker holds the lock and
\* nobody else is inside a critical section, the new space is stored on a
\* store without records, and a construction or a snapshot of another
\* worker that reads no space does so only from a store that never held
\* one; a snapshot is the pair (space, records) of one store state.
C19_ResetIsAtomic ==
    \A w \in Workers :
        /\ pc[w] = "ctor_insert" =>
              /\ lock = w /\ dbSpace = "None" /\ results = <<>>
              /\ \A v \in Workers \ {w} : pc[v] \notin Inside
        /\ (pc[w] = "ctor_exit" /\ Resetting(w)) =>
              /\ dbSpace = args[w].space /\ results = <<>>
              /\ \A v \in Workers \ {w} : pc[v] \notin Inside
        /\ (pc[w] = "ctor_locked" /\ loc[w].db_space = "None") =>
              NeverStored
        /\ (pc[w] = "df_results" /\ loc[w].space = "None") => NeverStored
        /\ pc[w] \in {"df_space", "df_results"} =>
              /\ pre[w].space = dbSpace /\ pre[w].results = results
              /\ \A v \in Workers : pc[v] # "ctor_insert"

\* a snapshot taken after the destructive reset of another worker reads
\* the new space and none of the records of the old one
C19_Witness ==
    \E w, v \in Workers :
        /\ w # v /\ pc[w] = "df_results" /\ loc[w].space = "S2"
        /\ pre[w].results = <<>> /\ clears = 1
        /\ pc[v] = "idle" /\ res[v].op = "ctor" /\ alg[v].space = "S2"

\* C20: under fair scheduling every call that was started gets the lock,
\* gives it back and completes: a waiting worker eventually holds the
\* lock, a worker that holds the lock eventually does not, and a worker
\* that is in a call eventually is idle again.
C20_EveryCallCompletes ==
    \A w \in Workers :
        /\ (pc[w] \in Waiting) ~> (lock = w)
        /\ (lock = w) ~> (lock # w)
        /\ (pc[w] # "idle") ~> (pc[w] = "idle")

\* a worker waits for the lock while another worker holds it inside a
\* construction, a next(), an update() or a snapshot
C20_Witness ==
    \E w, v \in Workers :
        /\ w # v /\ pc[w] \in Waiting
        /\ lock = v /\ pc[v] \in Inside

====
